---- MODULE Spec2Model ----
(***************************************************************************)
(* Whale sighting analysis: WhaleHabitatAnalyzer                           *)
(* (src/src/analysis/habitat_analysis.py) over a collection of sighting    *)
(* records as produced by WhaleDataCleaner                                 *)
(* (src/src/data_acquisition/clean_data.py).                               *)
(*                                                                         *)
(* Numbers.  Coordinates are whole degrees.  A mean is an exact fraction   *)
(* <<numerator, denominator>> in lowest terms.  Angles are in              *)
(* milliradians, sines and cosines in thousandths, distances in whole      *)
(* kilometres.  A date is a month index: 12 * year + (month - 1).          *)
(***************************************************************************)
EXTENDS Integers, Sequences, FiniteSets, TLC

VARIABLES
    columns,    \* the column names of self.df
    df,         \* the rows of self.df, in insertion order
    analyzer,   \* "unbuilt", "ready" (constructed) or "failed" (constructor raised)
    call,       \* the last operation called, with its arguments
    error,      \* the exception the last operation raised
    result,     \* the value the last operation returned
    rounding    \* "fails" or "passes": what the installed linear algebra does
                \* with a covariance that is singular only in exact arithmetic

vars == <<columns, df, analyzer, call, error, result, rounding>>

----------------------------------------------------------------------------
(* Bounds of the model.                                                    *)

\* The largest number of rows of a collection of Spec.
MaxRecords == 3

----------------------------------------------------------------------------
(* Python values.                                                          *)

\* None, as an argument value.
NoneArg == "<None>"

\* Python truthiness of an optional string argument: None and '' are falsy.
Truthy(s) == s # NoneArg /\ s # ""

NoError == "none"

----------------------------------------------------------------------------
(* Sequences.                                                              *)

Range(s) == {s[i] : i \in 1..Len(s)}

RECURSIVE SumSeq(_)
SumSeq(s) == IF s = <<>> THEN 0 ELSE Head(s) + SumSeq(Tail(s))

MinOf(S) == CHOOSE x \in S : \A y \in S : x <= y

MaxOf(S) == CHOOSE x \in S : \A y \in S : x >= y

\* The integers of S in ascending order.
RECURSIVE SortedInts(_)
SortedInts(S) == IF S = {} THEN <<>> ELSE <<MinOf(S)>> \o SortedInts(S \ {MinOf(S)})

----------------------------------------------------------------------------
(* Arithmetic.                                                             *)

Abs(x) == IF x < 0 THEN -x ELSE x

\* Division that rounds toward zero, so that SDiv(-a, b) = -SDiv(a, b).
SDiv(a, b) == IF a < 0 THEN -((-a) \div b) ELSE a \div b

RECURSIVE Gcd(_, _)
Gcd(a, b) == IF b = 0 THEN a ELSE Gcd(b, a % b)

\* The fraction n/d (d > 0) in lowest terms.
Frac(n, d) == LET g == Gcd(Abs(n), d) IN <<SDiv(n, g), d \div g>>

\* Mean with the aggregation 'sum' in place of 'mean'.
MeanAsSum(vals) == Frac(SumSeq(vals), 1)

\* pandas 'mean' of a non-empty column of whole numbers.
Mean(vals) == Frac(SumSeq(vals), Len(vals))

\* numpy.radians of the fraction q of degrees, in milliradians
\* (pi / 180 = 0.017453 rad).
Radians(q) == SDiv(q[1] * 17453, q[2] * 1000)

\* sin x for 0 <= x <= pi (x in milliradians), in thousandths: sin(pi - x)
\* above pi/2, then the Taylor polynomial of degree 9.
SinPos(x) ==
    LET y  == IF x > 1571 THEN (IF x > 3142 THEN 0 ELSE 3142 - x) ELSE x
        y2 == (y * y) \div 1000
        y3 == (y * y2) \div 1000
        y5 == (y3 * y2) \div 1000
        y7 == (y5 * y2) \div 1000
        y9 == (y7 * y2) \div 1000
        v  == y - (y3 \div 6) + (y5 \div 120) - (y7 \div 5040) + (y9 \div 362880)
    IN  IF v > 1000 THEN 1000 ELSE IF v < 0 THEN 0 ELSE v

\* sin x for x >= 0: of period 2 pi, and sin(x + pi) = -sin x.
SinNonNeg(x) ==
    LET r == x % 6283
    IN  IF r <= 3142 THEN SinPos(r) ELSE -SinPos(r - 3142)

\* numpy.sin: an odd function.
Sin(x) == IF x < 0 THEN -SinNonNeg(-x) ELSE SinNonNeg(x)

\* numpy.cos: an even function, cos x = sin(x + pi/2).
Cos(x) == SinNonNeg(Abs(x) + 1571)

\* numpy.sqrt of a (millionths, 0 <= a <= 2), in thousandths.
RECURSIVE SqrtIn(_, _, _)
SqrtIn(lo, hi, a) ==
    IF lo >= hi THEN lo
    ELSE LET mid == (lo + hi + 1) \div 2
         IN  IF mid * mid <= a THEN SqrtIn(mid, hi, a) ELSE SqrtIn(lo, mid - 1, a)

Sqrt(a) == SqrtIn(0, 1415, a)

\* numpy.arcsin of y (thousandths, 0 <= y <= 1000), in milliradians: the
\* largest angle of lo..hi whose sine does not exceed y, by bisection.
RECURSIVE ArcsinIn(_, _, _)
ArcsinIn(lo, hi, y) ==
    IF lo >= hi THEN lo
    ELSE LET mid == (lo + hi + 1) \div 2
         IN  IF SinPos(mid) <= y THEN ArcsinIn(mid, hi, y) ELSE ArcsinIn(lo, mid - 1, y)

Arcsin(y) == ArcsinIn(0, 1571, IF y > 1000 THEN 1000 ELSE y)

\* Earth's radius in kilometres.
EarthRadiusKm == 6371

\* HaversineDistance with the cosine of lat1 taken twice.
HaversineDistanceCosLat1Twice(lat1, lon1, lat2, lon2) ==
    LET rlat1 == Radians(lat1)
        rlon1 == Radians(lon1)
        rlat2 == Radians(lat2)
        rlon2 == Radians(lon2)
        dlat  == rlat2 - rlat1
        dlon  == rlon2 - rlon1
        sdlat == Sin(SDiv(dlat, 2))
        sdlon == Sin(SDiv(dlon, 2))
        a     == sdlat * sdlat
                 + (((Cos(rlat1) * Cos(rlat1)) \div 1000) * (sdlon * sdlon)) \div 1000
        c     == 2 * Arcsin(Sqrt(a))
    IN  (EarthRadiusKm * c) \div 1000

\* _haversine_distance(lat1, lon1, lat2, lon2): degrees (fractions) to
\* whole kilometres.  It takes any numbers: nothing checks their range.
HaversineDistance(lat1, lon1, lat2, lon2) ==
    LET rlat1 == Radians(lat1)
        rlon1 == Radians(lon1)
        rlat2 == Radians(lat2)
        rlon2 == Radians(lon2)
        dlat  == rlat2 - rlat1
        dlon  == rlon2 - rlon1
        sdlat == Sin(SDiv(dlat, 2))
        sdlon == Sin(SDiv(dlon, 2))
        \* a, in millionths
        a     == sdlat * sdlat
                 + (((Cos(rlat1) * Cos(rlat2)) \div 1000) * (sdlon * sdlon)) \div 1000
        c     == 2 * Arcsin(Sqrt(a))
    IN  (EarthRadiusKm * c) \div 1000

----------------------------------------------------------------------------
(* The sighting collection.                                                *)

\* y is a copy of the date's year, m of its month (eventdate.dt.year, .dt.month).
DateOf(y, m) == 12 * y + (m - 1)
YearOf(r)    == r.eventdate \div 12
MonthOf(r)   == (r.eventdate % 12) + 1

\* GetSeason that tests only months 1 and 2 for Winter, so that December
\* falls through to Autumn.
GetSeasonDecemberLast(month) ==
    IF month \in {1, 2} THEN "Winter"
    ELSE IF month \in {3, 4, 5} THEN "Spring"
    ELSE IF month \in {6, 7, 8} THEN "Summer"
    ELSE "Autumn"

\* _get_season(month)
GetSeason(month) ==
    IF month \in {12, 1, 2} THEN "Winter"
    ELSE IF month \in {3, 4, 5} THEN "Spring"
    ELSE IF month \in {6, 7, 8} THEN "Summer"
    ELSE "Autumn"

SeasonOf(r) == GetSeason(MonthOf(r))

\* The columns the analyzer's constructor requires, in the order it lists them.
RequiredColumns == <<"scientificname", "latitude", "longitude", "eventdate">>

\* The temporal columns _add_derived_features adds to a cleaned collection.
DerivedColumns == {"year", "month", "season"}

AllColumns == Range(RequiredColumns) \cup DerivedColumns

\* Python's ordering of the season names (str comparison), as a rank.
StrRank(s) ==
    CASE s = "Autumn" -> 1
      [] s = "Spring" -> 2
      [] s = "Summer" -> 3
      [] s = "Winter" -> 4

\* The value of a grouping column in a row, and the rank that orders it.
ColumnValue(r, col) ==
    CASE col = "year"   -> YearOf(r)
      [] col = "month"  -> MonthOf(r)
      [] col = "season" -> SeasonOf(r)

KeyRank(k, col) == IF col = "season" THEN StrRank(k) ELSE k

\* df.groupby(col): the distinct values of the column in ascending order
\* (sort=True), each with its rows in their original order.
GroupKeys(rows, col) ==
    LET keys  == {ColumnValue(rows[i], col) : i \in 1..Len(rows)}
        ranks == SortedInts({KeyRank(k, col) : k \in keys})
    IN  [i \in 1..Len(ranks) |-> CHOOSE k \in keys : KeyRank(k, col) = ranks[i]]

GroupRows(rows, col, key) ==
    LET InGroup(r) == ColumnValue(r, col) = key IN SelectSeq(rows, InGroup)

GroupBy(rows, col) ==
    LET keys == GroupKeys(rows, col)
    IN  [i \in 1..Len(keys) |-> [key |-> keys[i], rows |-> GroupRows(rows, col, keys[i])]]

\* df[df['scientificname'] == species]
OfSpecies(rows, species) ==
    LET Match(r) == r.scientificname = species IN SelectSeq(rows, Match)

Column(rows, f) == [i \in 1..Len(rows) |-> rows[i][f]]

\* MissingCols that stops at the first missing column.
MissingColsFirstOnly(cols) ==
    LET Missing(c) == c \notin cols
        all == SelectSeq(RequiredColumns, Missing)
    IN  IF all = <<>> THEN <<>> ELSE <<Head(all)>>

\* _validate_data: the required columns that are missing, in list order.
MissingCols(cols) ==
    LET Missing(c) == c \notin cols IN SelectSeq(RequiredColumns, Missing)

----------------------------------------------------------------------------
(* Temporal aggregation and migration metrics.                             *)

\* _calculate_centroids(df, time_window): any time_window but 'month'
\* groups by season.
CentroidColumn(time_window) == IF time_window = "month" THEN "month" ELSE "season"

CalculateCentroids(rows, time_window) ==
    LET groups == GroupBy(rows, CentroidColumn(time_window))
    IN  [i \in 1..Len(groups) |->
            [period         |-> groups[i].key,
             centroid_lat   |-> Mean(Column(groups[i].rows, "latitude")),
             centroid_lon   |-> Mean(Column(groups[i].rows, "longitude")),
             sighting_count |-> Len(Column(groups[i].rows, "eventdate"))]]

\* The distances list of _calculate_total_distance: one per consecutive pair.
SegmentDistances(centroids) ==
    [i \in 1..(Len(centroids) - 1) |->
        HaversineDistance(centroids[i].centroid_lat, centroids[i].centroid_lon,
                          centroids[i + 1].centroid_lat, centroids[i + 1].centroid_lon)]

\* CalculateTotalDistance as the displacement from the first centroid to
\* the last.
CalculateDisplacement(centroids) ==
    IF Len(centroids) < 2 THEN 0
    ELSE HaversineDistance(centroids[1].centroid_lat, centroids[1].centroid_lon,
                           centroids[Len(centroids)].centroid_lat,
                           centroids[Len(centroids)].centroid_lon)

\* _calculate_total_distance(centroids)
CalculateTotalDistance(centroids) ==
    IF Len(centroids) < 2 THEN 0 ELSE SumSeq(SegmentDistances(centroids))

\* CalculateSeasonalRanges with the longitude range taken from the latitude
\* column.
CalculateSeasonalRangesLatTwice(rows) ==
    LET groups == GroupBy(rows, "season")
        Group(season) == GroupRows(rows, "season", season)
    IN  [season \in {groups[i].key : i \in 1..Len(groups)} |->
            [latitude_range  |-> <<MinOf(Range(Column(Group(season), "latitude"))),
                                   MaxOf(Range(Column(Group(season), "latitude")))>>,
             longitude_range |-> <<MinOf(Range(Column(Group(season), "latitude"))),
                                   MaxOf(Range(Column(Group(season), "latitude")))>>]]

\* _calculate_seasonal_ranges(df): a dict keyed by season.
CalculateSeasonalRanges(rows) ==
    LET groups == GroupBy(rows, "season")
        Group(season) == GroupRows(rows, "season", season)
    IN  [season \in {groups[i].key : i \in 1..Len(groups)} |->
            [latitude_range  |-> <<MinOf(Range(Column(Group(season), "latitude"))),
                                   MaxOf(Range(Column(Group(season), "latitude")))>>,
             longitude_range |-> <<MinOf(Range(Column(Group(season), "longitude"))),
                                   MaxOf(Range(Column(Group(season), "longitude")))>>]]

----------------------------------------------------------------------------
(* Density-based clustering, DBSCAN(eps=1.0, min_samples=5).fit, over the  *)
(* (longitude, latitude) pairs of the rows with Euclidean distance.        *)

\* eps, in degrees
Eps == 1

MinSamples == 5

\* The noise label.
Noise == -1

SqDist(p, q) ==
    (p.longitude - q.longitude) * (p.longitude - q.longitude)
    + (p.latitude - q.latitude) * (p.latitude - q.latitude)

\* The rows within eps of row i, row i included.
Neighborhood(rows, i) == {j \in 1..Len(rows) : SqDist(rows[i], rows[j]) <= Eps * Eps}

\* CoreSamples that does not count a row among its own neighbours.
CoreSamplesOthersOnly(rows) ==
    {i \in 1..Len(rows) : Cardinality(Neighborhood(rows, i) \ {i}) >= MinSamples}

\* CoreSamples that asks for one row fewer than min_samples.
CoreSamplesOneFewer(rows) ==
    {i \in 1..Len(rows) : Cardinality(Neighborhood(rows, i)) >= MinSamples - 1}

\* The core rows: those with at least min_samples rows in their neighbourhood.
CoreSamples(rows) == {i \in 1..Len(rows) : Cardinality(Neighborhood(rows, i)) >= MinSamples}

\* ExpandCluster that takes the neighbours of the seed only and does not go
\* on from the core rows among them.
ExpandOnce(neighborhoods, core, labels, members) ==
    members \cup {j \in DOMAIN labels :
                    /\ labels[j] = Noise
                    /\ \E c \in members \cap core : j \in neighborhoods[c]}

\* The rows one cluster takes, grown from the rows in it so far: every
\* still unlabeled neighbour of a core row of the cluster joins it.
RECURSIVE ExpandCluster(_, _, _, _)
ExpandCluster(neighborhoods, core, labels, members) ==
    LET more == {j \in DOMAIN labels :
                    /\ j \notin members
                    /\ labels[j] = Noise
                    /\ \E c \in members \cap core : j \in neighborhoods[c]}
    IN  IF more = {} THEN members
        ELSE ExpandCluster(neighborhoods, core, labels, members \cup more)

\* The scan over the rows in input order: an unlabeled core row seeds the
\* next cluster.
RECURSIVE DbscanInner(_, _, _, _, _)
DbscanInner(neighborhoods, core, i, labels, label_num) ==
    IF i > Len(labels) THEN labels
    ELSE IF labels[i] # Noise \/ i \notin core
         THEN DbscanInner(neighborhoods, core, i + 1, labels, label_num)
         ELSE LET members == ExpandCluster(neighborhoods, core, labels, {i})
              IN  DbscanInner(neighborhoods, core, i + 1,
                      [j \in DOMAIN labels |-> IF j \in members THEN label_num ELSE labels[j]],
                      label_num + 1)

\* Dbscan with every row taken as a core row (min_samples = 1).
DbscanAllCore(rows) ==
    LET neighborhoods == [i \in 1..Len(rows) |-> Neighborhood(rows, i)]
    IN  DbscanInner(neighborhoods, 1..Len(rows), 1, [j \in 1..Len(rows) |-> Noise], 0)

\* clustering.labels_
Dbscan(rows) ==
    LET neighborhoods == [i \in 1..Len(rows) |-> Neighborhood(rows, i)]
        core          == CoreSamples(rows)
    IN  DbscanInner(neighborhoods, core, 1, [j \in 1..Len(rows) |-> Noise], 0)

\* df[mask]: the rows at which the boolean mask holds, in row order.
RowsWhere(rows, mask) ==
    LET Kept(i) == mask[i]
        kept    == SelectSeq([i \in 1..Len(rows) |-> i], Kept)
    IN  [k \in 1..Len(kept) |-> rows[kept[k]]]

\* IdentifyMigrationCorridors without the skip of the noise label.
IdentifyMigrationCorridorsWithNoise(rows) ==
    LET labels == Dbscan(rows)
        found  == SortedInts(Range(labels))
        Cluster(label) == RowsWhere(rows, [i \in 1..Len(rows) |-> labels[i] = label])
    IN  [k \in 1..Len(found) |->
            LET cluster_points == Cluster(found[k])
            IN  [points         |-> [i \in 1..Len(cluster_points) |->
                                        <<cluster_points[i].latitude,
                                          cluster_points[i].longitude>>],
                 sighting_count |-> Len(cluster_points),
                 time_span      |-> <<MinOf(Range(Column(cluster_points, "eventdate"))),
                                      MaxOf(Range(Column(cluster_points, "eventdate")))>>]]

\* _identify_migration_corridors(df): one descriptor per label other than -1.
IdentifyMigrationCorridors(rows) ==
    LET labels == Dbscan(rows)
        found  == SortedInts(Range(labels) \ {Noise})
        Cluster(label) == RowsWhere(rows, [i \in 1..Len(rows) |-> labels[i] = label])
    IN  [k \in 1..Len(found) |->
            LET cluster_points == Cluster(found[k])
            IN  [points         |-> [i \in 1..Len(cluster_points) |->
                                        <<cluster_points[i].latitude,
                                          cluster_points[i].longitude>>],
                 sighting_count |-> Len(cluster_points),
                 time_span      |-> <<MinOf(Range(Column(cluster_points, "eventdate"))),
                                      MaxOf(Range(Column(cluster_points, "eventdate")))>>]]

----------------------------------------------------------------------------
(* Habitat metrics.                                                        *)

Raise(type, msg, cols) == [type |-> type, msg |-> msg, cols |-> cols]

NoException == Raise(NoError, "", <<>>)

Returned(value) == [error |-> NoException, result |-> value]
Raised(err)     == [error |-> err, result |-> <<>>]

\* Python's empty dict {} : a mapping with no keys.
EmptyDict == <<>>

\* All points on one line (or in one place): the covariance of the
\* (longitude, latitude) scatter is singular.
Collinear(rows) ==
    \A i, j \in 1..Len(rows) :
        (rows[i].longitude - rows[1].longitude) * (rows[j].latitude - rows[1].latitude)
        = (rows[j].longitude - rows[1].longitude) * (rows[i].latitude - rows[1].latitude)

\* One coordinate has zero variance: every longitude is the same or every
\* latitude is (so also when all points coincide).  The covariance matrix
\* then has an exactly zero row.
ZeroVariance(rows) ==
    \/ \A i \in 1..Len(rows) : rows[i].longitude = rows[1].longitude
    \/ \A i \in 1..Len(rows) : rows[i].latitude = rows[1].latitude

\* gaussian_kde(coordinates.T): the exception it raises on the dataset, if
\* any.  One point gives a non-finite covariance; a zero-variance
\* coordinate gives a covariance whose factorization fails.  For points on
\* an oblique line the covariance is singular in exact arithmetic, and
\* whether its floating-point factorization fails is left open:
\* found_singular says which.
GaussianKde(rows, found_singular) ==
    IF Len(rows) < 2
    THEN Raised(Raise("ValueError", "array must not contain infs or NaNs", <<>>))
    ELSE IF ZeroVariance(rows) \/ (Collinear(rows) /\ found_singular)
    THEN Raised(Raise("LinAlgError", "singular data covariance matrix", <<>>))
    ELSE Returned([dataset |-> [i \in 1..Len(rows) |->
                                    <<rows[i].longitude, rows[i].latitude>>]])

\* CalculateHabitatMetrics with hotspot_count the number of clusters
\* instead of the number of clustered rows.
CalculateHabitatMetricsCountingClusters(rows, found_singular) ==
    IF rows = <<>> THEN Returned(EmptyDict)
    ELSE LET kde      == GaussianKde(rows, found_singular)
             labels   == Dbscan(rows)
             hotspots == RowsWhere(rows, [i \in 1..Len(rows) |-> labels[i] # Noise])
         IN  IF kde.error.type # NoError THEN Raised(kde.error)
             ELSE Returned(
                 [total_sightings  |-> Len(rows),
                  unique_locations |-> Cardinality({<<rows[i].latitude, rows[i].longitude>> :
                                                       i \in 1..Len(rows)}),
                  hotspot_count    |-> Cardinality(Range(labels) \ {Noise}),
                  density_estimate |-> kde.result,
                  hotspots         |-> hotspots])

\* _calculate_habitat_metrics(df)
CalculateHabitatMetrics(rows, found_singular) ==
    IF rows = <<>> THEN Returned(EmptyDict)
    ELSE LET kde      == GaussianKde(rows, found_singular)
             labels   == Dbscan(rows)
             hotspots == RowsWhere(rows, [i \in 1..Len(rows) |-> labels[i] # Noise])
         IN  IF kde.error.type # NoError THEN Raised(kde.error)
             ELSE Returned(
                 [total_sightings  |-> Len(rows),
                  unique_locations |-> Cardinality({<<rows[i].latitude, rows[i].longitude>> :
                                                       i \in 1..Len(rows)}),
                  hotspot_count    |-> Len(hotspots),
                  density_estimate |-> kde.result,
                  hotspots         |-> hotspots])

----------------------------------------------------------------------------
(* The two public analyses.                                                *)

\* analyze_habitat_preferences(species, time_period) on a collection with
\* the columns cols.
AnalyzeHabitatPreferences(cols, rows, species, time_period, found_singular) ==
    LET df_filtered == IF Truthy(species) THEN OfSpecies(rows, species) ELSE rows
    IN  IF Truthy(time_period)
        THEN IF time_period \notin {"year", "season"}
             THEN Raised(Raise("ValueError", "time_period must be 'year' or 'season'", <<>>))
             ELSE IF time_period \notin cols
             THEN Raised(Raise("KeyError", time_period, <<>>))
             ELSE LET groups  == GroupBy(df_filtered, time_period)
                      metrics == [i \in 1..Len(groups) |->
                                     CalculateHabitatMetrics(groups[i].rows, found_singular)]
                      failed  == {i \in 1..Len(groups) : metrics[i].error.type # NoError}
                  IN  IF failed # {} THEN Raised(metrics[MinOf(failed)].error)
                      ELSE Returned([period \in {groups[i].key : i \in 1..Len(groups)} |->
                               metrics[CHOOSE i \in 1..Len(groups) :
                                           groups[i].key = period].result])
        ELSE CalculateHabitatMetrics(df_filtered, found_singular)

\* AnalyzeMigrationPatterns that treats a species with fewer than 2 rows
\* like one with none.
AnalyzeMigrationPatternsFromTwo(cols, rows, species, time_window) ==
    LET df_species == OfSpecies(rows, species)
        centroids  == CalculateCentroids(df_species, time_window)
    IN  IF Len(df_species) < 2 THEN Returned(EmptyDict)
        ELSE IF CentroidColumn(time_window) \notin cols
        THEN Raised(Raise("KeyError", CentroidColumn(time_window), <<>>))
        ELSE IF "season" \notin cols
        THEN Raised(Raise("KeyError", "season", <<>>))
        ELSE Returned(
            [centroids           |-> centroids,
             total_distance      |-> CalculateTotalDistance(centroids),
             seasonal_ranges     |-> CalculateSeasonalRanges(df_species),
             migration_corridors |-> IdentifyMigrationCorridors(df_species)])

\* analyze_migration_patterns(species, time_window) on a collection with
\* the columns cols.
AnalyzeMigrationPatterns(cols, rows, species, time_window) ==
    LET df_species == OfSpecies(rows, species)
        centroids  == CalculateCentroids(df_species, time_window)
    IN  IF df_species = <<>> THEN Returned(EmptyDict)
        ELSE IF CentroidColumn(time_window) \notin cols
        THEN Raised(Raise("KeyError", CentroidColumn(time_window), <<>>))
        ELSE IF "season" \notin cols
        THEN Raised(Raise("KeyError", "season", <<>>))
        ELSE Returned(
            [centroids           |-> centroids,
             total_distance      |-> CalculateTotalDistance(centroids),
             seasonal_ranges     |-> CalculateSeasonalRanges(df_species),
             migration_corridors |-> IdentifyMigrationCorridors(df_species)])

----------------------------------------------------------------------------
(* The inputs of the model.                                                *)

Row(species, lat, lon, date) ==
    [scientificname |-> species, latitude |-> lat, longitude |-> lon, eventdate |-> date]

\* The rows a collection is drawn from.  Species X is seen at three
\* positions far apart and not on one line, twice in January 2010, once in
\* April 2010 and once in December 2011; one row is of another species.
RowDomain ==
    {Row("X", 10, 20, DateOf(2010, 1)),
     Row("X", 20, 60, DateOf(2010, 1)),
     Row("X", 40, 50, DateOf(2010, 4)),
     Row("X", 10, 20, DateOf(2011, 12)),
     Row("Y", 10, 20, DateOf(2010, 1))}

SeqsUpTo(S, n) == UNION {[1..k -> S] : k \in 0..n}

SpeciesArgs     == {NoneArg, "", "X", "Unknown"}
TimePeriodArgs  == {NoneArg, "", "year", "season", "month"}
TimeWindowArgs  == {"month", "season", "week"}

----------------------------------------------------------------------------
(* The state machine.                                                      *)

NoCall == [op |-> "none", species |-> NoneArg, arg |-> NoneArg]

\* The row sets a habitat call on the collection can fit a density to:
\* all rows or those of one species, whole or grouped by year or season.
FittedGroups(rows) ==
    LET selections == {rows} \cup {OfSpecies(rows, r.scientificname) : r \in Range(rows)}
    IN  selections
        \cup {GroupRows(sel, col, ColumnValue(r, col)) :
                  sel \in selections, col \in {"year", "season"}, r \in Range(rows)}

\* Some density fit on the collection meets points on an oblique line.
RoundingMatters(rows) ==
    \E g \in FittedGroups(rows) : Len(g) >= 2 /\ Collinear(g) /\ ~ZeroVariance(g)

\* The rounding behaviour is a property of the installation, the same for
\* every call; it is left open wherever the collection has rows it can
\* matter to.
InitWith(colsets, collections) ==
    /\ columns \in colsets
    /\ df \in collections
    /\ rounding \in IF RoundingMatters(df) THEN {"fails", "passes"} ELSE {"fails"}
    /\ analyzer = "unbuilt"
    /\ call = NoCall
    /\ error = NoException
    /\ result = EmptyDict

\* A cleaned collection (every derived column present) of up to
\* MaxRecords rows in any order.
Init == InitWith({AllColumns}, SeqsUpTo(RowDomain, MaxRecords))

\* WhaleHabitatAnalyzer(df): __init__ stores df and validates it.
Construct ==
    /\ analyzer = "unbuilt"
    /\ call' = [op |-> "__init__", species |-> NoneArg, arg |-> NoneArg]
    /\ IF MissingCols(columns) # <<>>
       THEN /\ analyzer' = "failed"
            /\ error' = Raise("ValueError", "Missing required columns", MissingCols(columns))
       ELSE /\ analyzer' = "ready"
            /\ error' = NoException
    /\ result' = EmptyDict
    /\ UNCHANGED <<columns, df, rounding>>

\* AnalyzeHabitat that filters self.df in place instead of a copy of it.
AnalyzeHabitatInPlace(species, time_period) ==
    /\ analyzer = "ready"
    /\ \E out \in {AnalyzeHabitatPreferences(columns, df, species, time_period,
                                            rounding = "fails")} :
           /\ error' = out.error
           /\ result' = out.result
    /\ call' = [op |-> "analyze_habitat_preferences", species |-> species,
                arg |-> time_period]
    /\ df' = IF Truthy(species) THEN OfSpecies(df, species) ELSE df
    /\ UNCHANGED <<columns, analyzer, rounding>>

\* analyze_habitat_preferences(species, time_period): works on a copy of
\* self.df.
AnalyzeHabitat(species, time_period) ==
    /\ analyzer = "ready"
    /\ \E out \in {AnalyzeHabitatPreferences(columns, df, species, time_period,
                                            rounding = "fails")} :
           /\ error' = out.error
           /\ result' = out.result
    /\ call' = [op |-> "analyze_habitat_preferences", species |-> species,
                arg |-> time_period]
    /\ UNCHANGED <<columns, df, analyzer, rounding>>

\* analyze_migration_patterns(species, time_window): works on a filtered
\* copy of self.df.
AnalyzeMigration(species, time_window) ==
    /\ analyzer = "ready"
    /\ \E out \in {AnalyzeMigrationPatterns(columns, df, species, time_window)} :
           /\ error' = out.error
           /\ result' = out.result
    /\ call' = [op |-> "analyze_migration_patterns", species |-> species,
                arg |-> time_window]
    /\ UNCHANGED <<columns, df, analyzer, rounding>>

NextWith(speciesArgs, timePeriodArgs, timeWindowArgs) ==
    \/ Construct
    \/ \E species \in speciesArgs, time_period \in timePeriodArgs :
          AnalyzeHabitat(species, time_period)
    \/ \E species \in speciesArgs \ {NoneArg}, time_window \in timeWindowArgs :
          AnalyzeMigration(species, time_window)

Next == NextWith(SpeciesArgs, TimePeriodArgs, TimeWindowArgs)

Spec == Init /\ [][Next]_vars

----------------------------------------------------------------------------
(* Collections of any schema: every set of columns, few rows.              *)

\* The largest number of rows of a collection of SpecSchema.
MaxSchemaRecords == 1

InitSchema == InitWith(SUBSET AllColumns, SeqsUpTo(RowDomain, MaxSchemaRecords))

SpecSchema == InitSchema /\ [][Next]_vars

----------------------------------------------------------------------------
(* Dense collections: sightings of species X at sites one degree apart.    *)

\* The largest number of sightings at one site of the line.
MaxPerSite == 3

\* Sites <<latitude, longitude>>: five in a line along latitude 10, one
\* degree of longitude apart, and one beside the middle of the line.
LineSites == <<<<10, 20>>, <<10, 21>>, <<10, 22>>, <<10, 23>>, <<10, 24>>>>
SideSite  == <<11, 22>>

\* The date of the j-th sighting at site k: the sightings of a site differ
\* in date, and dates do not follow the order of the sites.
SiteDate(k, j) == DateOf(2010, 1) + ((7 * k + 5 * j) % 24)

\* The sightings at site k, count of them.
SiteRows(k, count) ==
    [j \in 1..count |-> Row("X", LineSites[k][1], LineSites[k][2], SiteDate(k, j))]

RECURSIVE LineRows(_, _)
LineRows(counts, k) ==
    IF k > Len(LineSites) THEN <<>>
    ELSE SiteRows(k, counts[k]) \o LineRows(counts, k + 1)

\* A collection: one sighting of species Y in the middle of the line, the
\* sightings of X along the line site by site, and possibly one beside it.
ClusterCollections ==
    {<<Row("Y", 10, 22, DateOf(2010, 1))>> \o LineRows(counts, 1) \o side :
        counts \in [1..Len(LineSites) -> 0..MaxPerSite],
        side \in {<<>>, <<Row("X", SideSite[1], SideSite[2], DateOf(2011, 6))>>}}

InitCluster == InitWith({AllColumns}, ClusterCollections)

NextCluster == NextWith({"X"}, {NoneArg}, {"month"})

SpecCluster == InitCluster /\ [][NextCluster]_vars

----------------------------------------------------------------------------
(* Occupied lines: sightings of species X at every site of the line.       *)

\* The largest number of sightings at one site of an occupied line.
MaxPerStop == 2

\* A collection: one sighting of species Y in the middle of the line and
\* at least one sighting of X at every site.
OccupiedLineCollections ==
    {<<Row("Y", 10, 22, DateOf(2010, 1))>> \o LineRows(counts, 1) :
        counts \in [1..Len(LineSites) -> 1..MaxPerStop]}

InitLine == InitWith({AllColumns}, OccupiedLineCollections)

NextLine == NextWith({"X"}, {NoneArg}, {"month", "season"})

SpecLine == InitLine /\ [][NextLine]_vars

----------------------------------------------------------------------------
(* A patch of sites: sightings of species X at a few neighbouring spots,   *)
(* analysed whole and by year.                                             *)

\* The largest number of sightings at one spot of the patch.
MaxPerSpot == 3

\* Spots <<latitude, longitude>>: two one degree apart along latitude 10, a
\* third two degrees further along it, and a fourth one degree north of
\* the first.
PatchSpots == <<<<10, 20>>, <<10, 21>>, <<10, 23>>, <<11, 20>>>>

\* The date of the j-th sighting at spot k, over 2010 and 2011.
SpotDate(k, j) == DateOf(2010, 1) + ((3 * k + 4 * j) % 16)

\* The sightings at spot k, count of them.
SpotRows(k, count) ==
    [j \in 1..count |-> Row("X", PatchSpots[k][1], PatchSpots[k][2], SpotDate(k, j))]

RECURSIVE PatchRows(_, _)
PatchRows(counts, k) ==
    IF k > Len(PatchSpots) THEN <<>>
    ELSE SpotRows(k, counts[k]) \o PatchRows(counts, k + 1)

\* A collection: one sighting of species Y at the first spot, then the
\* sightings of X spot by spot.
PatchCollections ==
    {<<Row("Y", 10, 20, DateOf(2010, 1))>> \o PatchRows(counts, 1) :
        counts \in [1..Len(PatchSpots) -> 0..MaxPerSpot]}

InitPatch == InitWith({AllColumns}, PatchCollections)

NextPatch == NextWith({"X"}, {NoneArg, "year"}, {"month"})

SpecPatch == InitPatch /\ [][NextPatch]_vars

----------------------------------------------------------------------------
(* WhaleDataCleaner.clean_data over raw collections.                       *)
(*                                                                         *)
(* A raw cell is [tag, n].  Coordinates and counts: a number n ("number"), *)
(* the text of the number n ("text"), text that is no number ("junk") or   *)
(* a missing value ("null").  Dates: a timestamp with month index n        *)
(* ("date"), the text "YYYY-MM" with n = 100 * YYYY + MM ("text") or a     *)
(* missing value ("null").                                                 *)

NumberCell(n) == [tag |-> "number", n |-> n]
TextCell(n)   == [tag |-> "text", n |-> n]
DateCell(n)   == [tag |-> "date", n |-> n]
JunkCell      == [tag |-> "junk", n |-> 0]
NullCell      == [tag |-> "null", n |-> 0]

IsNull(cell) == cell.tag = "null"

\* self.required_columns of the cleaner, in list order.
CleanerRequiredColumns ==
    <<"scientificname", "latitude", "longitude", "eventdate", "individualcount">>

\* The missing columns are created: individualcount as 1, the others as
\* None.
CreateMissingColumns(cols, rows) ==
    [i \in 1..Len(rows) |->
        [scientificname  |-> IF "scientificname" \in cols
                             THEN rows[i].scientificname ELSE NoneArg,
         latitude        |-> IF "latitude" \in cols THEN rows[i].latitude ELSE NullCell,
         longitude       |-> IF "longitude" \in cols THEN rows[i].longitude ELSE NullCell,
         eventdate       |-> IF "eventdate" \in cols THEN rows[i].eventdate ELSE NullCell,
         individualcount |-> IF "individualcount" \in cols
                             THEN rows[i].individualcount ELSE NumberCell(1)]]

\* pd.to_datetime(value, errors='coerce'): a timestamp stays, the text
\* "YYYY-MM" is parsed when MM is a month, everything else becomes NaT.
ToDatetime(cell) ==
    IF cell.tag = "date" THEN cell
    ELSE IF cell.tag = "text" /\ (cell.n % 100) \in 1..12
         THEN DateCell(DateOf(cell.n \div 100, cell.n % 100))
         ELSE NullCell

\* pd.to_numeric(value, errors='coerce'): the text of a number becomes the
\* number, other text becomes NaN.
ToNumeric(cell) ==
    IF cell.tag \in {"number", "text"} THEN NumberCell(cell.n) ELSE NullCell

\* series.between(lo, hi): inclusive, and False for NaN.
Between(cell, lo, hi) == cell.tag = "number" /\ lo <= cell.n /\ cell.n <= hi

\* _handle_missing_values(df)
HandleMissingValues(rows) ==
    LET Complete(r) == ~IsNull(r.latitude) /\ ~IsNull(r.longitude) /\ ~IsNull(r.eventdate)
        kept == SelectSeq(rows, Complete)
    IN  [i \in 1..Len(kept) |->
            [kept[i] EXCEPT !.individualcount =
                IF IsNull(@) THEN NumberCell(1) ELSE @]]

\* The columns drop_duplicates compares.
DuplicateKey(r) == <<r.scientificname, r.latitude, r.longitude, r.eventdate>>

\* _remove_duplicates(df): the first row of every key is kept.
RemoveDuplicates(rows) ==
    LET First(i) == \A j \in 1..(i - 1) : DuplicateKey(rows[j]) # DuplicateKey(rows[i])
        kept     == SelectSeq([i \in 1..Len(rows) |-> i], First)
    IN  [k \in 1..Len(kept) |-> rows[kept[k]]]

\* CleanCoordinates that moves an out-of-range coordinate to the nearest
\* bound instead of removing the row.
CleanCoordinatesClamping(rows) ==
    LET Clamp(cell, lo, hi) ==
            IF cell.tag # "number" THEN cell
            ELSE NumberCell(IF cell.n < lo THEN lo ELSE IF cell.n > hi THEN hi ELSE cell.n)
        numeric == [i \in 1..Len(rows) |->
                       [rows[i] EXCEPT !.latitude  = Clamp(ToNumeric(@), -90, 90),
                                       !.longitude = Clamp(ToNumeric(@), -180, 180)]]
        Valid(r) == Between(r.latitude, -90, 90) /\ Between(r.longitude, -180, 180)
    IN  SelectSeq(numeric, Valid)

\* _clean_coordinates(df)
CleanCoordinates(rows) ==
    LET numeric == [i \in 1..Len(rows) |->
                       [rows[i] EXCEPT !.latitude  = ToNumeric(@),
                                       !.longitude = ToNumeric(@)]]
        Valid(r) == Between(r.latitude, -90, 90) /\ Between(r.longitude, -180, 180)
    IN  SelectSeq(numeric, Valid)

\* The columns _add_derived_features adds.
AddedColumns == {"year", "month", "season", "hemisphere"}

\* _add_derived_features(df): the rows with their values in place of the
\* cells, and the derived columns.
AddDerivedFeatures(rows) ==
    [i \in 1..Len(rows) |->
        LET r == [scientificname |-> rows[i].scientificname,
                  latitude       |-> rows[i].latitude.n,
                  longitude      |-> rows[i].longitude.n,
                  eventdate      |-> rows[i].eventdate.n]
        IN  [scientificname  |-> r.scientificname,
             latitude        |-> r.latitude,
             longitude       |-> r.longitude,
             eventdate       |-> r.eventdate,
             individualcount |-> rows[i].individualcount,
             year            |-> YearOf(r),
             month           |-> MonthOf(r),
             season          |-> GetSeason(MonthOf(r)),
             hemisphere      |-> IF r.latitude >= 0 THEN "Northern" ELSE "Southern"]]

\* clean_data(df): the frame it returns, as its columns and rows.  An empty
\* frame is returned as it is.
CleanData(cols, rows) ==
    IF rows = <<>> THEN [columns |-> cols, rows |-> rows]
    ELSE LET created == CreateMissingColumns(cols, rows)
             dated   == [i \in 1..Len(created) |->
                            [created[i] EXCEPT !.eventdate = ToDatetime(@)]]
         IN  [columns |-> cols \cup Range(CleanerRequiredColumns) \cup AddedColumns,
              rows    |-> AddDerivedFeatures(CleanCoordinates(
                              RemoveDuplicates(HandleMissingValues(dated))))]

\* The largest number of rows of a raw collection.
MaxRawRecords == 2

RawRow(species, lat, lon, date, count) ==
    [scientificname |-> species, latitude |-> lat, longitude |-> lon,
     eventdate |-> date, individualcount |-> count]

\* The raw rows: two valid ones (one at the bounds of the ranges, with its
\* count missing), one with each defect, and a copy of the first valid row
\* with its latitude as text.
RawRowDomain ==
    {RawRow("X", NumberCell(10), NumberCell(20), TextCell(201001), NumberCell(1)),
     RawRow("Y", NumberCell(-90), NumberCell(180), DateCell(DateOf(2011, 12)), NullCell),
     RawRow("X", NumberCell(91), NumberCell(20), TextCell(201001), NumberCell(1)),
     RawRow("X", NumberCell(10), NumberCell(-181), TextCell(201001), NumberCell(1)),
     RawRow("X", NullCell, NumberCell(20), TextCell(201001), NumberCell(1)),
     RawRow("X", NumberCell(10), JunkCell, TextCell(201001), NumberCell(1)),
     RawRow("X", NumberCell(10), NumberCell(20), TextCell(201013), NumberCell(1)),
     RawRow("X", TextCell(10), NumberCell(20), TextCell(201001), NumberCell(1))}

\* The column sets of the raw collections: complete, or lacking some of
\* the columns the cleaner requires.
RawColumnSets ==
    {Range(CleanerRequiredColumns),
     Range(CleanerRequiredColumns) \ {"individualcount"},
     Range(CleanerRequiredColumns) \ {"latitude"},
     Range(CleanerRequiredColumns) \ {"eventdate"},
     {"scientificname"}}

\* A raw collection of up to MaxRawRecords rows; no analyzer is involved.
InitClean ==
    /\ columns \in RawColumnSets
    /\ df \in SeqsUpTo(RawRowDomain, MaxRawRecords)
    /\ analyzer = "unbuilt"
    /\ call = NoCall
    /\ error = NoException
    /\ result = EmptyDict
    /\ rounding = "fails"

\* WhaleDataCleaner().clean_data(df): works on a copy of df.
Clean ==
    /\ call' = [op |-> "clean_data", species |-> NoneArg, arg |-> NoneArg]
    /\ result' = CleanData(columns, df)
    /\ error' = NoException
    /\ UNCHANGED <<columns, df, analyzer, rounding>>

NextClean == Clean

SpecClean == InitClean /\ [][NextClean]_vars

----------------------------------------------------------------------------
(* The cleaner over raw collections with a sighting in every month.        *)

\* The largest number of rows of a raw collection of dated sightings.
MaxDatedRecords == 2

\* One sighting of 2010 for every month as a timestamp and as text, and
\* two whose text names no month.
DatedRowDomain ==
    {RawRow("X", NumberCell(10), NumberCell(20), DateCell(DateOf(2010, m)), NumberCell(1)) :
        m \in 1..12}
    \cup {RawRow("X", NumberCell(10), NumberCell(20), TextCell(201000 + m), NumberCell(1)) :
        m \in 0..13}

InitSeason ==
    /\ columns = Range(CleanerRequiredColumns)
    /\ df \in SeqsUpTo(DatedRowDomain, MaxDatedRecords)
    /\ analyzer = "unbuilt"
    /\ call = NoCall
    /\ error = NoException
    /\ result = EmptyDict
    /\ rounding = "fails"

NextSeason == Clean

SpecSeason == InitSeason /\ [][NextSeason]_vars

----------------------------------------------------------------------------
(* The dashboard: update_visualizations over the sample data its client    *)
(* generates for the selected species.                                     *)

\* The largest number of sightings the client returns.
MaxFetched == 3

\* Sample sightings of species X in the North Atlantic: timestamps,
\* numbers for the coordinates and a count.  Three places not on one line
\* are seen in the winter of 2010, one of them again in spring.
FetchedRowDomain ==
    {RawRow("X", NumberCell(30), NumberCell(-40), DateCell(DateOf(2010, 1)), NumberCell(1)),
     RawRow("X", NumberCell(31), NumberCell(-40), DateCell(DateOf(2010, 2)), NumberCell(2)),
     RawRow("X", NumberCell(30), NumberCell(-41), DateCell(DateOf(2010, 1)), NumberCell(5)),
     RawRow("X", NumberCell(45), NumberCell(-20), DateCell(DateOf(2010, 12)), NumberCell(3)),
     RawRow("X", NumberCell(30), NumberCell(-40), DateCell(DateOf(2010, 4)), NumberCell(1))}

\* metrics.get(key, default)
DictGet(metrics, key, default) ==
    IF key \in DOMAIN metrics THEN metrics[key] ELSE default

\* f"{x:.2f}" of a whole number of kilometres: its digits and two decimals.
FormatFixed2(x) == [whole |-> x, decimals |-> <<0, 0>>]

\* The outputs of the callback the model keeps: the analysis-results
\* panel and the error message.
Display(results, error_message) == [results |-> results, error_message |-> error_message]

Message(text) == [kind |-> "message", text |-> text]

\* The analysis-results panel of the habitat branch.
HabitatResults(metrics) ==
    [kind             |-> "habitat",
     total_sightings  |-> DictGet(metrics, "total_sightings", 0),
     unique_locations |-> DictGet(metrics, "unique_locations", 0),
     hotspot_count    |-> DictGet(metrics, "hotspot_count", 0)]

\* The analysis-results panel of the migration branch.
MigrationResults(metrics) ==
    [kind                |-> "migration",
     total_distance      |-> FormatFixed2(DictGet(metrics, "total_distance", 0)),
     migration_corridors |-> Len(DictGet(metrics, "migration_corridors", <<>>))]

\* update_visualizations(species, start_date, end_date, analysis_type),
\* with raw the data the client returned for the species: the panel and
\* the error message it returns.  The figures are built from the cleaned
\* data and are not kept.
UpdateVisualizationsOutput(cols, raw, species, analysis_type, found_singular) ==
    IF ~Truthy(species)
    THEN Display(Message("Please select a species"), "No species selected")
    ELSE IF raw = <<>>
    THEN Display(Message("No data available"),
                 "No data available for the selected criteria")
    ELSE LET cleaned_data == CleanData(cols, raw)
         IN  IF cleaned_data.rows = <<>>
             THEN Display(Message("No valid data after cleaning"),
                          "No valid data after cleaning")
             ELSE IF MissingCols(cleaned_data.columns) # <<>>
             THEN Display(Message("Error processing data"), "Error: ValueError")
             ELSE LET out == IF analysis_type = "habitat"
                             THEN AnalyzeHabitatPreferences(cleaned_data.columns,
                                      cleaned_data.rows, species, "season", found_singular)
                             ELSE AnalyzeMigrationPatterns(cleaned_data.columns,
                                      cleaned_data.rows, species, "month")
                  IN  IF out.error.type # NoError
                      THEN Display(Message("Error processing data"),
                                   "Error: " \o out.error.type)
                      ELSE IF analysis_type = "habitat"
                      THEN Display(HabitatResults(out.result), "")
                      ELSE Display(MigrationResults(out.result), "")

\* The data the client will return for species X, with all its columns;
\* the rounding behaviour is left open where the cleaned rows can meet it.
InitDashboard ==
    /\ columns = Range(CleanerRequiredColumns)
    /\ df \in SeqsUpTo(FetchedRowDomain, MaxFetched) \ {<<>>}
    /\ rounding \in IF RoundingMatters(CleanData(columns, df).rows)
                    THEN {"fails", "passes"} ELSE {"fails"}
    /\ analyzer = "unbuilt"
    /\ call = NoCall
    /\ error = NoException
    /\ result = EmptyDict

\* The callback: it catches every exception and returns its outputs.
UpdateVisualizations(species, analysis_type) ==
    /\ call' = [op |-> "update_visualizations", species |-> species,
                arg |-> analysis_type]
    /\ result' = UpdateVisualizationsOutput(columns, df, species, analysis_type,
                                            rounding = "fails")
    /\ error' = NoException
    /\ UNCHANGED <<columns, df, analyzer, rounding>>

NextDashboard ==
    \E species \in {NoneArg, "X"}, analysis_type \in {"habitat", "migration"} :
        UpdateVisualizations(species, analysis_type)

SpecDashboard == InitDashboard /\ [][NextDashboard]_vars

----------------------------------------------------------------------------
(* Geometry: the static method _haversine_distance called on its own.      *)

\* How many degrees beyond the valid ranges the arguments go.
MaxOver == 1

Latitudes ==
    {-90, -45, 0, 45, 90} \cup {90 + k : k \in 1..MaxOver} \cup {-90 - k : k \in 1..MaxOver}

Longitudes ==
    {-180, -90, 0, 90, 180} \cup {180 + k : k \in 1..MaxOver}
    \cup {-180 - k : k \in 1..MaxOver}

\* No analyzer is needed; the arguments <<lat1, lon1, lat2, lon2>> of the
\* call to come are at hand, in whole degrees.
InitGeometry ==
    /\ columns = AllColumns
    /\ df = <<>>
    /\ analyzer = "unbuilt"
    /\ call \in {[op |-> "none", species |-> NoneArg, arg |-> <<lat1, lon1, lat2, lon2>>] :
                    lat1 \in Latitudes, lon1 \in Longitudes,
                    lat2 \in Latitudes, lon2 \in Longitudes}
    /\ error = NoException
    /\ result = EmptyDict
    /\ rounding = "fails"

\* WhaleHabitatAnalyzer._haversine_distance(lat1, lon1, lat2, lon2): it
\* returns a float and raises nothing.
Haversine ==
    /\ call' = [call EXCEPT !.op = "_haversine_distance"]
    /\ result' = HaversineDistance(<<call.arg[1], 1>>, <<call.arg[2], 1>>,
                                   <<call.arg[3], 1>>, <<call.arg[4], 1>>)
    /\ error' = NoException
    /\ UNCHANGED <<columns, df, analyzer, rounding>>

NextGeometry == Haversine

SpecGeometry == InitGeometry /\ [][NextGeometry]_vars

----------------------------------------------------------------------------
(* Properties.                                                             *)

IsHabitatCall   == call.op = "analyze_habitat_preferences"
IsMigrationCall == call.op = "analyze_migration_patterns"
Succeeded       == error.type = NoError

\* The rows of the collection, by index, that are of the called species.
SpeciesRows == {i \in 1..Len(df) : df[i].scientificname = call.species}

\* The sum of f over the indices S.
RECURSIVE SumIdx(_, _)
SumIdx(S, f) ==
    IF S = {} THEN 0
    ELSE LET i == CHOOSE j \in S : TRUE IN f[i] + SumIdx(S \ {i}, f)

\* A migration call returned its metrics (the species has rows).
MigrationMetricsReturned ==
    IsMigrationCall /\ Succeeded /\ DOMAIN result # {}

\* C1: analyze_migration_patterns raises an invalid-argument error
\* (ValueError) for every time_window other than 'month' and 'season', and
\* so never returns metrics for one.
C1_InvalidTimeWindowRejected ==
    (IsMigrationCall /\ call.arg \notin {"month", "season"})
        => error.type = "ValueError"

\* C2: analyze_habitat_preferences raises the invalid-argument error for
\* every supplied time_period (anything but None) that is neither 'year'
\* nor 'season', whatever rows the species filter leaves.
C2_InvalidTimePeriodRejected ==
    (IsHabitatCall /\ call.arg # NoneArg /\ call.arg \notin {"year", "season"})
        => /\ error.type = "ValueError"
           /\ error.msg = "time_period must be 'year' or 'season'"

\* C3: construction fails with the schema error exactly when one of the
\* four required columns is absent, the error lists exactly the absent
\* required columns, and construction succeeds when all four are present.
C3_SchemaValidation ==
    LET required == {"scientificname", "latitude", "longitude", "eventdate"}
    IN  call.op = "__init__" =>
            /\ analyzer = "failed" <=> required \ columns # {}
            /\ analyzer = "ready" <=> required \subseteq columns
            /\ analyzer = "failed" =>
                  /\ error.type = "ValueError"
                  /\ Range(error.cols) = required \ columns
                  /\ Len(error.cols) = Cardinality(required \ columns)
            /\ analyzer = "ready" => Succeeded

\* C3 witness: construction failed on a collection lacking two required
\* columns, and both are listed.
C3_Witness ==
    /\ call.op = "__init__"
    /\ analyzer = "failed"
    /\ error.cols = <<"latitude", "eventdate">>
    /\ "season" \in columns

\* C4: for a species that matches no row, analyze_habitat_preferences
\* (time_period None, 'year' or 'season') and analyze_migration_patterns
\* (time_window 'month' or 'season') return an empty mapping and raise
\* nothing.
C4_NoMatchGivesEmpty ==
    (/\ call.species # NoneArg
     /\ SpeciesRows = {}
     /\ \/ IsHabitatCall /\ call.arg \in {NoneArg, "year", "season"}
        \/ IsMigrationCall /\ call.arg \in {"month", "season"})
        => Succeeded /\ DOMAIN result = {}

\* The place of a season in the fixed cycle Winter, Spring, Summer, Autumn.
SeasonCycle(s) ==
    CASE s = "Winter" -> 1
      [] s = "Spring" -> 2
      [] s = "Summer" -> 3
      [] s = "Autumn" -> 4

\* C5: with time_window 'season' the centroids come in the order Winter,
\* Spring, Summer, Autumn (of the seasons present).
C5_SeasonCycleOrder ==
    (MigrationMetricsReturned /\ call.arg = "season") =>
        \A i, j \in 1..Len(result.centroids) :
            i < j => SeasonCycle(result.centroids[i].period)
                        < SeasonCycle(result.centroids[j].period)

\* C6: with time_window 'month' there is exactly one centroid per distinct
\* month of the species' rows, in ascending month order; its coordinates
\* are the means of the member coordinates (sum of members = count x
\* centroid), its sighting_count the number of members, and the counts add
\* up to the number of rows of the species.
C6_MonthCentroids ==
    (MigrationMetricsReturned /\ call.arg = "month") =>
        LET c == result.centroids
            Members(m) == {i \in SpeciesRows : MonthOf(df[i]) = m}
            lat == [i \in 1..Len(df) |-> df[i].latitude]
            lon == [i \in 1..Len(df) |-> df[i].longitude]
        IN  /\ {c[k].period : k \in 1..Len(c)} = {MonthOf(df[i]) : i \in SpeciesRows}
            /\ \A j, k \in 1..Len(c) : j < k => c[j].period < c[k].period
            /\ \A k \in 1..Len(c) :
                  /\ c[k].sighting_count = Cardinality(Members(c[k].period))
                  /\ c[k].centroid_lat[2] > 0 /\ c[k].centroid_lon[2] > 0
                  /\ SumIdx(Members(c[k].period), lat) * c[k].centroid_lat[2]
                        = c[k].sighting_count * c[k].centroid_lat[1]
                  /\ SumIdx(Members(c[k].period), lon) * c[k].centroid_lon[2]
                        = c[k].sighting_count * c[k].centroid_lon[1]
            /\ SumIdx(1..Len(c), [k \in 1..Len(c) |-> c[k].sighting_count])
                  = Cardinality(SpeciesRows)

\* C6 witness: two month centroids from rows inserted out of month order,
\* the first the mean (15, 40) of two January sightings at different places.
C6_Witness ==
    /\ MigrationMetricsReturned /\ call.arg = "month"
    /\ Len(result.centroids) = 2
    /\ MonthOf(df[1]) = 4
    /\ result.centroids[1].period = 1
    /\ result.centroids[1].sighting_count = 2
    /\ result.centroids[1].centroid_lat = <<15, 1>>
    /\ result.centroids[1].centroid_lon = <<40, 1>>

\* The great-circle distance from centroid a to centroid b.
CentroidDistance(a, b) ==
    HaversineDistance(a.centroid_lat, a.centroid_lon, b.centroid_lat, b.centroid_lon)

\* C7: total_distance is 0 for fewer than 2 centroids and otherwise the sum
\* of the distances of consecutive centroids (so 2 d(A, B) along A, B, A);
\* it is never negative, and every segment has the same length in both
\* directions.
C7_TotalDistanceIsPathLength ==
    MigrationMetricsReturned =>
        LET c == result.centroids
            segment == [i \in 1..(Len(c) - 1) |-> CentroidDistance(c[i], c[i + 1])]
        IN  /\ Len(c) < 2 => result.total_distance = 0
            /\ Len(c) >= 2 => result.total_distance = SumIdx(1..(Len(c) - 1), segment)
            /\ result.total_distance >= 0
            /\ \A i \in 1..(Len(c) - 1) :
                  /\ segment[i] >= 0
                  /\ segment[i] = CentroidDistance(c[i + 1], c[i])
            /\ (/\ Len(c) = 3
                /\ c[1].centroid_lat = c[3].centroid_lat
                /\ c[1].centroid_lon = c[3].centroid_lon)
                  => result.total_distance = 2 * CentroidDistance(c[1], c[2])

\* C7 witness: three centroids A, B, A, the path out and back.
C7_Witness ==
    /\ MigrationMetricsReturned /\ call.arg = "month"
    /\ Len(result.centroids) = 3
    /\ result.centroids[1].centroid_lat = result.centroids[3].centroid_lat
    /\ result.centroids[1].centroid_lon = result.centroids[3].centroid_lon
    /\ result.centroids[1].centroid_lat # result.centroids[2].centroid_lat
    /\ result.total_distance > 0

\* C8: seasonal_ranges has an entry for exactly the seasons of the species'
\* rows; latitude_range and longitude_range are (minimum, maximum) of the
\* season's latitudes and longitudes: every row of the season is inside the
\* box, each side of the box is attained, and min <= max.
C8_SeasonalRanges ==
    MigrationMetricsReturned =>
        LET ranges == result.seasonal_ranges
            Members(s) == {i \in SpeciesRows : SeasonOf(df[i]) = s}
        IN  /\ DOMAIN ranges = {SeasonOf(df[i]) : i \in SpeciesRows}
            /\ \A s \in DOMAIN ranges :
                  LET lat == ranges[s].latitude_range
                      lon == ranges[s].longitude_range
                  IN  /\ lat[1] <= lat[2] /\ lon[1] <= lon[2]
                      /\ \A i \in Members(s) :
                            /\ lat[1] <= df[i].latitude /\ df[i].latitude <= lat[2]
                            /\ lon[1] <= df[i].longitude /\ df[i].longitude <= lon[2]
                      /\ \E i \in Members(s) : df[i].latitude = lat[1]
                      /\ \E i \in Members(s) : df[i].latitude = lat[2]
                      /\ \E i \in Members(s) : df[i].longitude = lon[1]
                      /\ \E i \in Members(s) : df[i].longitude = lon[2]

\* C8 witness: a Winter box over two different places and a Spring box.
C8_Witness ==
    /\ MigrationMetricsReturned
    /\ DOMAIN result.seasonal_ranges = {"Winter", "Spring"}
    /\ result.seasonal_ranges["Winter"].latitude_range = <<10, 20>>
    /\ result.seasonal_ranges["Winter"].longitude_range = <<20, 60>>

\* The rows the clustering of a migration call runs over, and their labels.
ClusteredRows == OfSpecies(df, call.species)

\* C9: migration_corridors has exactly one corridor per cluster label other
\* than noise: its points are the (latitude, longitude) pairs of exactly the
\* rows with that label, sighting_count their number, time_span the
\* (earliest, latest) event date among them; no row labeled noise is in a
\* corridor and no row is in two.
C9_CorridorsAreClusters ==
    MigrationMetricsReturned =>
        LET rows      == ClusteredRows
            labels    == Dbscan(rows)
            corridors == result.migration_corridors
            clusters  == Range(labels) \ {Noise}
            Members(l) == {i \in 1..Len(rows) : labels[i] = l}
            Place(i)  == <<rows[i].latitude, rows[i].longitude>>
            Describes(c, l) ==
                /\ c.sighting_count = Cardinality(Members(l))
                /\ Len(c.points) = c.sighting_count
                /\ \A q \in Range(c.points) \cup {Place(i) : i \in Members(l)} :
                      Cardinality({k \in 1..Len(c.points) : c.points[k] = q})
                          = Cardinality({i \in Members(l) : Place(i) = q})
                /\ \A i \in Members(l) :
                      c.time_span[1] <= rows[i].eventdate
                          /\ rows[i].eventdate <= c.time_span[2]
                /\ \E i \in Members(l) : rows[i].eventdate = c.time_span[1]
                /\ \E i \in Members(l) : rows[i].eventdate = c.time_span[2]
        IN  /\ Len(corridors) = Cardinality(clusters)
            /\ \A l \in clusters : \E k \in 1..Len(corridors) : Describes(corridors[k], l)
            /\ \A k \in 1..Len(corridors) : \E l \in clusters : Describes(corridors[k], l)
            /\ SumIdx(1..Len(corridors),
                      [k \in 1..Len(corridors) |-> corridors[k].sighting_count])
                  = Cardinality({i \in 1..Len(rows) : labels[i] # Noise})

\* C9 witness: two corridors over different time spans, and a noise row
\* that is in neither.
C9_Witness ==
    /\ MigrationMetricsReturned
    /\ Len(result.migration_corridors) = 2
    /\ result.migration_corridors[1].time_span # result.migration_corridors[2].time_span
    /\ result.migration_corridors[1].time_span[1] < result.migration_corridors[1].time_span[2]
    /\ \E i \in 1..Len(ClusteredRows) : Dbscan(ClusteredRows)[i] = Noise
    /\ result.migration_corridors[1].sighting_count
          + result.migration_corridors[2].sighting_count < Len(ClusteredRows)

\* Input orders of n rows other than the given one, each a sequence p
\* where p[k] is the row put in place k: the reversal, and the rotations by
\* one place and by half the length.
InputOrders(n) ==
    {[k \in 1..n |-> n + 1 - k]}
    \cup {[k \in 1..n |-> ((k + r - 1) % n) + 1] : r \in {1, n \div 2}}

GivenOrder(n) == [k \in 1..n |-> k]

\* The labels clustering yields when the rows are put in the order p, and
\* the clusters and the noise set they make, as sets of rows of the given
\* collection.
LabelsUnder(rows, p) == Dbscan([k \in 1..Len(rows) |-> rows[p[k]]])

ClustersOf(labels, p) ==
    {{p[k] : k \in {j \in 1..Len(labels) : labels[j] = l}} : l \in Range(labels) \ {Noise}}

NoiseOf(labels, p) == {p[k] : k \in {j \in 1..Len(labels) : labels[j] = Noise}}

WithinEps(rows, i, j) ==
    (rows[i].longitude - rows[j].longitude) * (rows[i].longitude - rows[j].longitude)
    + (rows[i].latitude - rows[j].latitude) * (rows[i].latitude - rows[j].latitude) <= 1

\* The rows farther than eps from every other row.
IsolatedRows(rows) ==
    {i \in 1..Len(rows) : \A j \in 1..Len(rows) : j # i => ~WithinEps(rows, i, j)}

\* The rows are a dense group (at least 5 rows pairwise within eps) and
\* isolated rows, nothing else.
DenseGroupAndIsolated(rows) ==
    LET group == (1..Len(rows)) \ IsolatedRows(rows)
    IN  /\ Cardinality(group) >= 5
        /\ \A i, j \in group : WithinEps(rows, i, j)

\* C11: a row is a core row iff at least 5 rows, itself included, are within
\* eps of it, and every such row is in a corridor; when the rows are one
\* dense group of at least 5 rows pairwise within eps and isolated rows
\* farther than eps from every other row, there is exactly one cluster, it
\* holds the whole group and nothing else, and every isolated row is noise.
C11_CoreAndDenseGroup ==
    MigrationMetricsReturned =>
        LET rows      == ClusteredRows
            n         == Len(rows)
            corridors == result.migration_corridors
            labels    == Dbscan(rows)
            dense     == {i \in 1..n :
                            Cardinality({j \in 1..n : WithinEps(rows, i, j)}) >= 5}
            isolated  == IsolatedRows(rows)
            group     == (1..n) \ isolated
            Place(i)  == <<rows[i].latitude, rows[i].longitude>>
        IN  /\ CoreSamples(rows) = dense
            /\ \A i \in dense :
                  /\ labels[i] # -1
                  /\ \E k \in 1..Len(corridors) : Place(i) \in Range(corridors[k].points)
            /\ dense = {} => corridors = <<>>
            /\ DenseGroupAndIsolated(rows) =>
                  /\ Len(corridors) = 1
                  /\ corridors[1].sighting_count = Cardinality(group)
                  /\ Range(corridors[1].points) = {Place(i) : i \in group}
                  /\ \A i \in isolated :
                        labels[i] = -1 /\ Place(i) \notin Range(corridors[1].points)
                  /\ \A i \in group : labels[i] = 0

\* C11 witness: a group of exactly 5 rows at two sites one degree apart and
\* an isolated row two degrees away, which is left out of the one corridor.
C11_Witness ==
    /\ MigrationMetricsReturned
    /\ DenseGroupAndIsolated(ClusteredRows)
    /\ Cardinality(IsolatedRows(ClusteredRows)) = 1
    /\ Len(ClusteredRows) = 6
    /\ Len(result.migration_corridors) = 1
    /\ result.migration_corridors[1].sighting_count = 5
    /\ Cardinality(Range(result.migration_corridors[1].points)) = 2

\* No row has 5 rows, itself included, within eps of it: clustering labels
\* every row noise.
TooSparse(rows) ==
    \A i \in 1..Len(rows) :
        Cardinality({j \in 1..Len(rows) : WithinEps(rows, i, j)}) < 5

\* C12: when no row of the species has 5 rows within eps,
\* analyze_migration_patterns returns normally with migration_corridors the
\* empty list, and a habitat bundle for those rows has hotspot_count 0 and
\* no hotspots; the habitat call fails on such rows only where the density
\* fit does (fewer than 2 rows, or rows on one line), never for sparseness.
C12_AllNoiseIsNotAnError ==
    (ClusteredRows # <<>> /\ TooSparse(ClusteredRows)) =>
        /\ IsMigrationCall =>
              /\ Succeeded
              /\ DOMAIN result # {}
              /\ result.migration_corridors = <<>>
        /\ (IsHabitatCall /\ call.arg = NoneArg) =>
              /\ Succeeded =>
                    /\ DOMAIN result # {}
                    /\ result.hotspot_count = 0
                    /\ result.hotspots = <<>>
              /\ ~Succeeded =>
                    \/ Len(ClusteredRows) < 2
                    \/ Collinear(ClusteredRows)

\* C12 witness: a habitat bundle over at least 5 rows of the species, none
\* of them with 5 rows within eps, reporting no hotspot.
C12_Witness ==
    /\ IsHabitatCall /\ call.arg = NoneArg /\ Succeeded
    /\ Len(ClusteredRows) >= 5
    /\ TooSparse(ClusteredRows)
    /\ result.total_sightings = Len(ClusteredRows)
    /\ result.hotspot_count = 0
    /\ result.hotspots = <<>>

\* The rows a habitat call analyses: those of the species, or all rows when
\* the species argument is falsy.
HabitatRows == IF Truthy(call.species) THEN OfSpecies(df, call.species) ELSE df

\* C13: with time_period 'year' or 'season' the habitat call returns a
\* mapping whose keys are exactly the distinct values of that column among
\* the filtered rows, each mapped to the bundle of that group's rows alone,
\* for every filtered set, groups of a single row or of coincident rows
\* included.
C13_OneBundlePerGroup ==
    (IsHabitatCall /\ call.arg \in {"year", "season"} /\ call.arg \in columns) =>
        LET rows == HabitatRows
            Key(i) == ColumnValue(rows[i], call.arg)
            Members(k) == {i \in 1..Len(rows) : Key(i) = k}
        IN  /\ Succeeded
            /\ DOMAIN result = {Key(i) : i \in 1..Len(rows)}
            /\ \A k \in DOMAIN result :
                  /\ result[k].total_sightings = Cardinality(Members(k))
                  /\ result[k].unique_locations
                        = Cardinality({<<rows[i].latitude, rows[i].longitude>> :
                                          i \in Members(k)})
                  /\ result[k].hotspot_count = Len(result[k].hotspots)
                  /\ Range(result[k].hotspots) \subseteq {rows[i] : i \in Members(k)}

\* All rows are at one place.
Coincident(rows) ==
    \A i \in 1..Len(rows) :
        rows[i].latitude = rows[1].latitude /\ rows[i].longitude = rows[1].longitude

\* C14: on a non-empty point set of fewer than 2 points, or of coincident
\* points, the density fit fails with InsufficientDataError and the failure
\* is recoverable: the habitat call reports no other error kind and still
\* produces the rest of the bundle (counts and hotspots).
C14_DensityFailureRecoverable ==
    (/\ IsHabitatCall /\ call.arg = NoneArg
     /\ HabitatRows # <<>>
     /\ Len(HabitatRows) < 2 \/ Coincident(HabitatRows)) =>
        /\ error.type \in {NoError, "InsufficientDataError"}
        /\ {"total_sightings", "unique_locations", "hotspot_count", "hotspots"}
              \subseteq DOMAIN result
        /\ result.total_sightings = Len(HabitatRows)
        /\ result.unique_locations = 1

\* The bundles a successful habitat call returned, each with the rows of
\* its group: the one bundle of the filtered rows, or one per group key.
ReturnedBundles ==
    IF ~(IsHabitatCall /\ Succeeded) THEN {}
    ELSE IF ~Truthy(call.arg)
         THEN {[rows |-> HabitatRows, bundle |-> result]}
         ELSE {[rows |-> GroupRows(HabitatRows, call.arg, k), bundle |-> result[k]] :
                  k \in DOMAIN result}

\* C15: every bundle produced for a non-empty group carries total_sightings,
\* unique_locations, hotspot_count, density_estimate and hotspots, with
\* total_sightings the number of rows of the group, unique_locations the
\* number of distinct (latitude, longitude) pairs, hotspots exactly the rows
\* clustering that group does not label noise, and hotspot_count their
\* number; so hotspot_count <= total_sightings and
\* 1 <= unique_locations <= total_sightings.
C15_BundleContents ==
    \A b \in ReturnedBundles :
        b.rows # <<>> =>
            LET rows   == b.rows
                bundle == b.bundle
                labels == Dbscan(rows)
                kept   == {i \in 1..Len(rows) : labels[i] # -1}
            IN  /\ DOMAIN bundle = {"total_sightings", "unique_locations", "hotspot_count",
                                    "density_estimate", "hotspots"}
                /\ bundle.total_sightings = Len(rows)
                /\ bundle.unique_locations
                      = Cardinality({<<rows[i].latitude, rows[i].longitude>> :
                                        i \in 1..Len(rows)})
                /\ Len(bundle.hotspots) = Cardinality(kept)
                /\ \A r \in Range(bundle.hotspots) \cup {rows[i] : i \in kept} :
                      Cardinality({k \in 1..Len(bundle.hotspots) : bundle.hotspots[k] = r})
                          = Cardinality({i \in kept : rows[i] = r})
                /\ bundle.hotspot_count = Len(bundle.hotspots)
                /\ bundle.hotspot_count <= bundle.total_sightings
                /\ 1 <= bundle.unique_locations
                /\ bundle.unique_locations <= bundle.total_sightings
                /\ Range(bundle.density_estimate.dataset)
                      = {<<rows[i].longitude, rows[i].latitude>> : i \in 1..Len(rows)}

\* C15 witness: a bundle with hotspots and with noise rows, over fewer
\* places than sightings.
C15_Witness ==
    /\ IsHabitatCall /\ Succeeded /\ DOMAIN result # {}
    /\ call.arg = NoneArg
    /\ result.hotspot_count >= 5
    /\ result.hotspot_count < result.total_sightings
    /\ result.unique_locations < result.total_sightings
    /\ result.unique_locations >= 3

\* C16: for a species with at least one row, analyze_migration_patterns
\* with time_window 'month' or 'season' on a cleaned collection returns a
\* mapping with centroids, total_distance, seasonal_ranges and
\* migration_corridors, whatever the number of rows; for a single row there
\* is one centroid at that row, total_distance is 0 and migration_corridors
\* is empty.
C16_MigrationMetricsForAnyCount ==
    (/\ IsMigrationCall /\ call.arg \in {"month", "season"}
     /\ SpeciesRows # {}
     /\ DerivedColumns \subseteq columns) =>
        /\ Succeeded
        /\ DOMAIN result = {"centroids", "total_distance", "seasonal_ranges",
                            "migration_corridors"}
        /\ Len(result.centroids) >= 1
        /\ DOMAIN result.seasonal_ranges # {}
        /\ Cardinality(SpeciesRows) = 1 =>
              LET r == df[CHOOSE i \in SpeciesRows : TRUE]
              IN  /\ Len(result.centroids) = 1
                  /\ result.centroids[1].sighting_count = 1
                  /\ result.centroids[1].centroid_lat = <<r.latitude, 1>>
                  /\ result.centroids[1].centroid_lon = <<r.longitude, 1>>
                  /\ result.total_distance = 0
                  /\ result.migration_corridors = <<>>
                  /\ DOMAIN result.seasonal_ranges = {SeasonOf(r)}

\* C16 witness: the metrics of a species with a single row, in a collection
\* that holds rows of another species too.
C16_Witness ==
    /\ MigrationMetricsReturned /\ call.arg = "season"
    /\ Cardinality(SpeciesRows) = 1
    /\ Len(df) = 3
    /\ result.total_distance = 0
    /\ result.migration_corridors = <<>>
    /\ Len(result.centroids) = 1

\* What the call made last returns or raises when it is the only call made
\* on an analyzer newly constructed over the rows rows with the columns cols.
FreshOutcome(cols, rows, c) ==
    IF c.op = "analyze_habitat_preferences"
    THEN AnalyzeHabitatPreferences(cols, rows, c.species, c.arg, rounding = "fails")
    ELSE AnalyzeMigrationPatterns(cols, rows, c.species, c.arg)

IsHaversineCall == call.op = "_haversine_distance"

\* The four arguments of a haversine call are in range: latitudes in
\* [-90, 90], longitudes in [-180, 180].
ValidCoordinates(a) ==
    /\ -90 <= a[1] /\ a[1] <= 90
    /\ -180 <= a[2] /\ a[2] <= 180
    /\ -90 <= a[3] /\ a[3] <= 90
    /\ -180 <= a[4] /\ a[4] <= 180

\* C18: haversine_distance fails with InvalidCoordinate whenever a latitude
\* is outside [-90, 90] or a longitude outside [-180, 180], and returns a
\* distance only when all four arguments are in range.
C18_InvalidCoordinateRejected ==
    IsHaversineCall =>
        /\ ~ValidCoordinates(call.arg) => error.type = "InvalidCoordinate"
        /\ Succeeded => ValidCoordinates(call.arg)

\* C19: for valid coordinates the distance from a to b is the distance
\* from b to a, and the distance from a point to itself is 0.
C19_SymmetricAndZeroOnEqual ==
    (IsHaversineCall /\ ValidCoordinates(call.arg)) =>
        LET a == call.arg
        IN  /\ Succeeded
            /\ result = HaversineDistance(<<a[3], 1>>, <<a[4], 1>>, <<a[1], 1>>, <<a[2], 1>>)
            /\ result >= 0
            /\ (a[1] = a[3] /\ a[2] = a[4]) => result = 0

\* C19 witness: a distance of thousands of kilometres between two valid
\* points that differ in latitude and in longitude.
C19_Witness ==
    /\ IsHaversineCall /\ ValidCoordinates(call.arg)
    /\ call.arg[1] = 45 /\ call.arg[3] = 0
    /\ call.arg[2] # call.arg[4]
    /\ result > 1000

IsCleanCall == call.op = "clean_data"

\* The value of a raw coordinate cell of the collection, if it has one:
\* the number, or the number its text stands for.
HasValue(cell) == cell.tag \in {"number", "text"}

\* Row i of the raw collection is valid: its coordinates and date are
\* present, the coordinates are numbers in range and the date is a date.
ValidRaw(i) ==
    /\ {"latitude", "longitude", "eventdate"} \subseteq columns
    /\ HasValue(df[i].latitude) /\ -90 <= df[i].latitude.n /\ df[i].latitude.n <= 90
    /\ HasValue(df[i].longitude) /\ -180 <= df[i].longitude.n /\ df[i].longitude.n <= 180
    /\ \/ df[i].eventdate.tag = "date"
       \/ df[i].eventdate.tag = "text" /\ (df[i].eventdate.n % 100) \in 1..12

\* The output row r is the raw row i with its values read, nothing altered.
CleanedFrom(r, i) ==
    /\ r.latitude = df[i].latitude.n
    /\ r.longitude = df[i].longitude.n
    /\ r.eventdate = IF df[i].eventdate.tag = "date" THEN df[i].eventdate.n
                      ELSE 12 * (df[i].eventdate.n \div 100) + (df[i].eventdate.n % 100) - 1
    /\ "scientificname" \in columns => r.scientificname = df[i].scientificname

\* What C20 says of the output of a clean_data call.
CleanOutputValid ==
    /\ {"scientificname", "latitude", "longitude", "eventdate"} \subseteq result.columns
    /\ \A k \in 1..Len(result.rows) :
          LET r == result.rows[k]
          IN  /\ -90 <= r.latitude /\ r.latitude <= 90
              /\ -180 <= r.longitude /\ r.longitude <= 180
              /\ r.eventdate \in Int
              /\ \E i \in 1..Len(df) : ValidRaw(i) /\ CleanedFrom(r, i)
    /\ \A i \in 1..Len(df) :
          ValidRaw(i) => \E k \in 1..Len(result.rows) : CleanedFrom(result.rows[k], i)

\* C20 as stated: for every input collection the output of clean_data has
\* the columns scientificname, latitude, longitude and eventdate, and every
\* output row has its latitude in [-90, 90], its longitude in [-180, 180]
\* and an event date; rows that do not are removed, not repaired (every
\* output row is a valid input row, and every valid input row is kept).
C20_CleanOutputForEveryInput ==
    IsCleanCall => CleanOutputValid

\* C20 as amended: the same for every non-empty input collection; an empty
\* input collection is returned as it is, with the columns it came with.
C20_CleanOutputForNonEmptyInput ==
    IsCleanCall =>
        /\ df # <<>> => CleanOutputValid
        /\ df = <<>> => result.columns = columns /\ result.rows = <<>>

\* C20 witness: of two raw rows the valid one is kept and the one with a
\* latitude out of range is removed.
C20_Witness ==
    /\ IsCleanCall
    /\ Len(df) = 2
    /\ df[1].latitude = NumberCell(91)
    /\ ValidRaw(2)
    /\ Len(result.rows) = 1
    /\ result.rows[1].latitude = 10

\* The season of every month, as a table indexed by the month.
SeasonTable ==
    <<"Winter", "Winter", "Spring", "Spring", "Spring", "Summer",
      "Summer", "Summer", "Autumn", "Autumn", "Autumn", "Winter">>

\* The months the raw collection's dates name: the month of a timestamp,
\* the MM of a text "YYYY-MM" that names a month.
RawMonths ==
    {(df[i].eventdate.n % 12) + 1 : i \in {j \in 1..Len(df) : df[j].eventdate.tag = "date"}}
    \cup {df[i].eventdate.n % 100 :
            i \in {j \in 1..Len(df) : /\ df[j].eventdate.tag = "text"
                                       /\ (df[j].eventdate.n % 100) \in 1..12}}

\* C21: every cleaned record has a month in 1..12, the month of its event
\* date, and its season is the table's entry for that month: Winter for
\* 12, 1, 2, Spring for 3, 4, 5, Summer for 6, 7, 8 and Autumn for 9, 10,
\* 11; every month a raw date names is the month of a cleaned record.
C21_SeasonFollowsTable ==
    IsCleanCall =>
        /\ \A k \in 1..Len(result.rows) :
              LET r == result.rows[k]
              IN  /\ r.month \in 1..12
                  /\ r.month = (r.eventdate % 12) + 1
                  /\ r.year = r.eventdate \div 12
                  /\ r.season = SeasonTable[r.month]
                  /\ r.season \in {"Winter", "Spring", "Summer", "Autumn"}
        /\ {result.rows[k].month : k \in 1..Len(result.rows)} = RawMonths

\* C21 witness: a December sighting given as text and a September one given
\* as a timestamp are cleaned into a Winter and an Autumn record.
C21_Witness ==
    /\ IsCleanCall
    /\ Len(df) = 2
    /\ df[1].eventdate = TextCell(201012)
    /\ df[2].eventdate = DateCell(DateOf(2010, 9))
    /\ Len(result.rows) = 2
    /\ result.rows[1].month = 12 /\ result.rows[1].season = "Winter"
    /\ result.rows[2].month = 9 /\ result.rows[2].season = "Autumn"

\* The last call is an analysis call C22 speaks of: a habitat call with
\* time_period absent, 'year' or 'season', or a migration call with
\* time_window 'month' or 'season', for a species that has records.
IsSupportedCallOnPresentSpecies ==
    /\ analyzer = "ready"
    /\ \/ /\ call.op = "analyze_habitat_preferences"
          /\ call.arg \in {NoneArg, "year", "season"}
       \/ /\ call.op = "analyze_migration_patterns"
          /\ call.arg \in {"month", "season"}
    /\ Truthy(call.species)
    /\ SpeciesRows # {}

\* C22: on a collection the constructor accepted, no supported analysis
\* call for a species that has records fails because a column it reads
\* (year, month, season) is absent from the collection.
C22_AcceptedCollectionsAnalyzable ==
    IsSupportedCallOnPresentSpecies => error.type # "KeyError"

HeldNeighbours(c, i) ==
    {j \in Neighborhood(ClusteredRows, i) :
        <<ClusteredRows[j].latitude, ClusteredRows[j].longitude>> \in Range(c.points)}

LostNeighbours(c, i) == Neighborhood(ClusteredRows, i) \ HeldNeighbours(c, i)

DisplayedSpeciesRows == OfSpecies(CleanData(columns, df).rows, call.species)

\* C24: when the habitat panel is shown for a species that has records,
\* its total sightings, unique locations and hotspot count are the metrics
\* of those records: the total is their number, not the default 0.
C24_HabitatPanelShowsMetrics ==
    (/\ call.op = "update_visualizations"
     /\ call.arg = "habitat"
     /\ result.results.kind = "habitat"
     /\ DisplayedSpeciesRows # <<>>)
    => LET metrics == CalculateHabitatMetrics(DisplayedSpeciesRows, rounding = "fails")
       IN  /\ result.results.total_sightings = Len(DisplayedSpeciesRows)
           /\ metrics.error.type = NoError =>
                 /\ result.results.unique_locations = metrics.result.unique_locations
                 /\ result.results.hotspot_count = metrics.result.hotspot_count

====
